---- MODULE Spec2Model ----
(***************************************************************************)
(* Model of src/pipeline.py: the dengue / rainfall batch pipeline.         *)
(*                                                                         *)
(* Strings are sequences of one-character strings, so that splitting,      *)
(* joining, the digit test, float parsing and float formatting are         *)
(* computed character by character.  Floats are fixed-point integers in    *)
(* units of 10^-(NDigits+1), one digit finer than round_rainfall keeps.    *)
(***************************************************************************)
EXTENDS Integers, Sequences, FiniteSets, TLC

\* Largest number of data lines in each input file.
MaxRecs == 2

\* ndigits of round_rainfall.
NDigits == 6

RECURSIVE Pow10(_)
Pow10(n) == IF n = 0 THEN 1 ELSE 10 * Pow10(n - 1)

\* Digits kept after the decimal point by the fixed-point floats.
FracDigits == NDigits + 1
Scale == Pow10(FracDigits)

Digits == {"0", "1", "2", "3", "4", "5", "6", "7", "8", "9"}

DigitVal(c) ==
  CASE c = "0" -> 0 [] c = "1" -> 1 [] c = "2" -> 2 [] c = "3" -> 3
    [] c = "4" -> 4 [] c = "5" -> 5 [] c = "6" -> 6 [] c = "7" -> 7
    [] c = "8" -> 8 [] c = "9" -> 9

DigitChar(n) ==
  CASE n = 0 -> "0" [] n = 1 -> "1" [] n = 2 -> "2" [] n = 3 -> "3"
    [] n = 4 -> "4" [] n = 5 -> "5" [] n = 6 -> "6" [] n = 7 -> "7"
    [] n = 8 -> "8" [] n = 9 -> "9"

Min(a, b) == IF a <= b THEN a ELSE b

(***************************************************************************)
(* Python string primitives.                                               *)
(***************************************************************************)

\* str.split(delimiter): the tokens between the delimiters, at least one.
\* cuts[k] is the position of the k-th delimiter, with 0 and Len(s) + 1 as
\* the ends of the string.
Split(s, d) ==
  LET P    == {i \in 1..Len(s) : s[i] = d}
      n    == Cardinality(P)
      cuts == [k \in 0..(n + 1) |->
                 IF k = 0 THEN 0
                 ELSE IF k = n + 1 THEN Len(s) + 1
                 ELSE CHOOSE i \in P : Cardinality({j \in P : j < i}) = k - 1]
  IN  [k \in 1..(n + 1) |-> SubSeq(s, cuts[k - 1] + 1, cuts[k] - 1)]

\* delimiter.join(parts)
RECURSIVE Join(_, _)
Join(parts, d) ==
  IF Len(parts) = 0 THEN <<>>
  ELSE IF Len(parts) = 1 THEN parts[1]
  ELSE parts[1] \o <<d>> \o Join(Tail(parts), d)

\* seq[:n]
Take(seq, n) == SubSeq(seq, 1, Min(n, Len(seq)))

\* bool(re.search(r'\d', s))
HasDigit(s) == \E i \in 1..Len(s) : s[i] \in Digits

AllDigits(s) == \A i \in 1..Len(s) : s[i] \in Digits

RECURSIVE DigitsVal(_)
DigitsVal(s) ==
  IF Len(s) = 0 THEN 0
  ELSE 10 * DigitsVal(SubSeq(s, 1, Len(s) - 1)) + DigitVal(s[Len(s)])

\* float(s) on the alphabet of the inputs (digits, sign, point, letters other
\* than those of the exponent, inf and nan forms, no blanks or underscores):
\* [+-]? digits* ( . digits* )? with at least one digit and at most FracDigits
\* digits after the point; anything else raises ValueError (ok = FALSE).
ParseFloat(s) ==
  LET signed == Len(s) > 0 /\ s[1] \in {"-", "+"}
      body   == IF signed THEN Tail(s) ELSE s
      parts  == Split(body, ".")
      ip     == parts[1]
      fp     == IF Len(parts) = 2 THEN parts[2] ELSE <<>>
      wellFormed ==
        /\ Len(parts) <= 2
        /\ AllDigits(ip) /\ AllDigits(fp)
        /\ Len(ip) + Len(fp) > 0
        /\ Len(fp) <= FracDigits
      mag == DigitsVal(ip) * Scale + DigitsVal(fp) * Pow10(FracDigits - Len(fp))
  IN  IF wellFormed
      THEN [ok |-> TRUE, val |-> IF signed /\ s[1] = "-" THEN 0 - mag ELSE mag]
      ELSE [ok |-> FALSE, val |-> 0]

RECURSIVE NatStr(_)
NatStr(n) ==
  IF n < 10 THEN <<DigitChar(n)>>
  ELSE Append(NatStr(n \div 10), DigitChar(n % 10))

RECURSIVE FracStr(_, _)
FracStr(f, width) ==
  IF width = 1 THEN <<DigitChar(f)>>
  ELSE IF f % 10 = 0 THEN FracStr(f \div 10, width - 1)
  ELSE Append(FracStr(f \div 10, width - 1), DigitChar(f % 10))

\* str(x) of a float: integer part, point, fraction without trailing zeros.
FloatStr(x) ==
  LET mag == IF x < 0 THEN 0 - x ELSE x
      txt == NatStr(mag \div Scale) \o <<".">> \o FracStr(mag % Scale, FracDigits)
  IN  IF x < 0 THEN <<"-">> \o txt ELSE txt

(***************************************************************************)
(* The transforms of pipeline.py.  A transform that can raise returns a    *)
(* record [ok, val]; ok = FALSE is the exception that aborts the run.      *)
(***************************************************************************)

dengue_columns ==
  <<"id", "data_iniSE", "casos", "ibge_code", "cidade", "uf", "cep",
    "latitude", "longitude">>

Raised == [ok |-> FALSE, val |-> <<>>]
Returned(v) == [ok |-> TRUE, val |-> v]

\* Mutant of list_to_dictionary: schema names with no field map to ''.
list_to_dictionary_padded(element, columns) ==
  [c \in {columns[i] : i \in 1..Len(columns)} |->
     LET i == CHOOSE j \in 1..Len(columns) : columns[j] = c
     IN  IF i <= Len(element) THEN element[i] ELSE <<>>]

\* dict(zip(columns, element)): the positions present in both sequences.
list_to_dictionary(element, columns) ==
  LET n == Min(Len(columns), Len(element))
  IN  [c \in {columns[i] : i \in 1..n} |->
         element[CHOOSE i \in 1..n : columns[i] = c]]

text_to_list(element, delimiter) == Split(element, delimiter)

\* Mutant of transform_dates: keeps the whole date instead of YEAR-MONTH.
transform_dates_whole(element) ==
  IF "data_iniSE" \notin DOMAIN element THEN Raised
  ELSE Returned([c \in DOMAIN element \cup {"ano_mes"} |->
                   IF c = "ano_mes" THEN element["data_iniSE"] ELSE element[c]])

\* element['data_iniSE'] raises KeyError when the name is unset.
transform_dates(element) ==
  IF "data_iniSE" \notin DOMAIN element THEN Raised
  ELSE Returned([c \in DOMAIN element \cup {"ano_mes"} |->
                   IF c = "ano_mes"
                   THEN Join(Take(Split(element["data_iniSE"], "-"), 2), "-")
                   ELSE element[c]])

\* element['uf'] raises KeyError when the name is unset.
uf_key(element) ==
  IF "uf" \notin DOMAIN element THEN Raised
  ELSE Returned(<<element["uf"], element>>)

\* The four fused Map steps of the dengue branch, applied to one line.
DengueMap(line) ==
  LET dict  == list_to_dictionary(text_to_list(line, "|"), dengue_columns)
      dated == transform_dates(dict)
  IN  IF ~dated.ok THEN Raised ELSE uf_key(dated.val)

\* One iteration of the loop of dengue_cases over d.  d.get('casos') is None
\* when unset and re.search raises TypeError on it; float() raises ValueError.
dengue_case(uf, d) ==
  LET key == uf \o <<"-">> \o d["ano_mes"]
  IN  IF "casos" \notin DOMAIN d THEN Raised
      ELSE IF HasDigit(d["casos"])
           THEN IF ParseFloat(d["casos"]).ok
                THEN Returned(<<key, ParseFloat(d["casos"]).val>>)
                ELSE Raised
           ELSE Returned(<<key, 0>>)

\* The generator dengue_cases((uf, data)): the pairs yielded, in order, up to
\* the first iteration that raises.
RECURSIVE dengue_cases_from(_, _, _)
dengue_cases_from(uf, data, i) ==
  IF i > Len(data) THEN [ok |-> TRUE, val |-> <<>>]
  ELSE LET one == dengue_case(uf, data[i])
       IN  IF ~one.ok THEN [ok |-> FALSE, val |-> <<>>]
           ELSE LET rest == dengue_cases_from(uf, data, i + 1)
                IN  [ok |-> rest.ok, val |-> <<one.val>> \o rest.val]

dengue_cases(element) == dengue_cases_from(element[1], element[2], 1)

\* Mutant of rain_key_uf_year_month: a rainfall that does not parse counts 0.0.
rain_key_uf_year_month_lenient(element) ==
  IF Len(element) # 3 THEN Raised
  ELSE LET key == element[3] \o <<"-">> \o Join(Take(Split(element[1], "-"), 2), "-")
       IN  IF ParseFloat(element[2]).ok /\ ParseFloat(element[2]).val >= 0
           THEN Returned(<<key, ParseFloat(element[2]).val>>)
           ELSE Returned(<<key, 0>>)

\* date, rainfall, uf = element raises ValueError unless there are 3 fields;
\* float(rainfall) raises ValueError on a non-numeric field.
rain_key_uf_year_month(element) ==
  IF Len(element) # 3 THEN Raised
  ELSE LET date     == element[1]
           rainfall == element[2]
           uf       == element[3]
           key      == uf \o <<"-">> \o Join(Take(Split(date, "-"), 2), "-")
       IN  IF ~ParseFloat(rainfall).ok THEN Raised
           ELSE IF ParseFloat(rainfall).val >= 0
                THEN Returned(<<key, ParseFloat(rainfall).val>>)
                ELSE Returned(<<key, 0>>)

\* round(x, ndigits=6): to the nearest multiple of 10^-6, ties to even.
RoundHalfEven(x, unit) ==
  LET q == x \div unit
      r == x % unit
  IN  IF 2 * r < unit THEN q * unit
      ELSE IF 2 * r > unit THEN (q + 1) * unit
      ELSE IF q % 2 = 0 THEN q * unit ELSE (q + 1) * unit

\* Mutant of round_rainfall: truncates instead of rounding.
round_rainfall_truncate(element) ==
  <<element[1],
    (element[2] \div Pow10(FracDigits - NDigits)) * Pow10(FracDigits - NDigits)>>

round_rainfall(element) ==
  <<element[1], RoundHalfEven(element[2], Pow10(FracDigits - NDigits))>>

\* Mutant of filter_missing_values: tests the first value of each list, so a
\* sum of 0.0 counts as missing.
filter_missing_values_truthy(element) ==
  /\ Len(element[2].rain) > 0 /\ Len(element[2].dengue) > 0
  /\ element[2].rain[1] # 0 /\ element[2].dengue[1] # 0

\* all([data['rain'], data['dengue']]): a list is truthy iff it is non-empty.
filter_missing_values(element) ==
  LET data == element[2]
  IN  Len(data.rain) > 0 /\ Len(data.dengue) > 0

\* uf, year, month = key.split('-') raises ValueError unless there are three
\* tokens; [0] raises IndexError on an empty list.
unpack_elements(element) ==
  LET key  == element[1]
      data == element[2]
      toks == Split(key, "-")
  IN  IF Len(toks) # 3 \/ Len(data.rain) = 0 \/ Len(data.dengue) = 0 THEN Raised
      ELSE Returned(<<toks[1], toks[2], toks[3],
                      FloatStr(data.rain[1]), FloatStr(data.dengue[1])>>)

prepare_csv(element, delimiter) == Join(element, delimiter)

\* Mutant of CombineAdd: the accumulator keeps the last measure of the key.
CombineAdd_overwrite(acc, pair) ==
  [x \in DOMAIN acc \cup {pair[1]} |-> IF x = pair[1] THEN pair[2] ELSE acc[x]]

\* One step of the accumulator of CombinePerKey(sum): sum starts from 0.
CombineAdd(acc, pair) ==
  LET k == pair[1]
  IN  [x \in DOMAIN acc \cup {k} |->
         IF x = k THEN (IF k \in DOMAIN acc THEN acc[k] ELSE 0) + pair[2]
         ELSE acc[x]]

RECURSIVE CombineAll(_, _)
CombineAll(acc, pairs) ==
  IF Len(pairs) = 0 THEN acc
  ELSE CombineAll(CombineAdd(acc, Head(pairs)), Tail(pairs))

\* The output of CombinePerKey(sum): one pair per key of the accumulator.
CombineOutput(acc) == {<<k, acc[k]>> : k \in DOMAIN acc}

Keys(stream) == {p[1] : p \in stream}

RECURSIVE SetToSeq(_)
SetToSeq(S) ==
  IF S = {} THEN <<>>
  ELSE LET x == CHOOSE y \in S : TRUE IN <<x>> \o SetToSeq(S \ {x})

\* The values a stream holds for key k, as the list CoGroupByKey builds.
ValuesFor(stream, k) == SetToSeq({p[2] : p \in {q \in stream : q[1] = k}})

\* Mutant of CoGroupByKey: an inner join, only the keys of both streams.
CoGroupByKey_inner(rainStream, dengueStream) ==
  {<<k, [rain |-> ValuesFor(rainStream, k), dengue |-> ValuesFor(dengueStream, k)]>> :
     k \in Keys(rainStream) \cap Keys(dengueStream)}

\* CoGroupByKey over {'rain': rain, 'dengue': dengue}.
CoGroupByKey(rainStream, dengueStream) ==
  {<<k, [rain |-> ValuesFor(rainStream, k), dengue |-> ValuesFor(dengueStream, k)]>> :
     k \in Keys(rainStream) \cup Keys(dengueStream)}

(***************************************************************************)
(* The input files.                                                        *)
(***************************************************************************)

\* The dados/casos_dengue.txt lines an input file is drawn from (after the
\* skipped header):
\*   1|2015-03-10|10|x|x|SP|x|x|x
\*   2|2015-03-20|abc|x|x|SP|x|x|x|x
\*   3|2015-04-01|12a|x|x|SP|x|x|x
\*   4|2015-03-05|-5|x|x|RJ|x|x|x
\*   5|2015-03-10|7
\*   6|2015-04-02|3|x|x|SP
\*   7|2015-03-01|4|x|x|S-P|x|x|x
DengueCandidates ==
  <<<<"1", "|", "2", "0", "1", "5", "-", "0", "3", "-", "1", "0",
      "|", "1", "0", "|", "x", "|", "x", "|", "S", "P", "|", "x",
      "|", "x", "|", "x">>,
    <<"2", "|", "2", "0", "1", "5", "-", "0", "3", "-", "2", "0",
      "|", "a", "b", "c", "|", "x", "|", "x", "|", "S", "P", "|",
      "x", "|", "x", "|", "x", "|", "x">>,
    <<"3", "|", "2", "0", "1", "5", "-", "0", "4", "-", "0", "1",
      "|", "1", "2", "a", "|", "x", "|", "x", "|", "S", "P", "|",
      "x", "|", "x", "|", "x">>,
    <<"4", "|", "2", "0", "1", "5", "-", "0", "3", "-", "0", "5",
      "|", "-", "5", "|", "x", "|", "x", "|", "R", "J", "|", "x",
      "|", "x", "|", "x">>,
    <<"5", "|", "2", "0", "1", "5", "-", "0", "3", "-", "1", "0",
      "|", "7">>,
    <<"6", "|", "2", "0", "1", "5", "-", "0", "4", "-", "0", "2",
      "|", "3", "|", "x", "|", "x", "|", "S", "P">>,
    <<"7", "|", "2", "0", "1", "5", "-", "0", "3", "-", "0", "1",
      "|", "4", "|", "x", "|", "x", "|", "S", "-", "P", "|", "x",
      "|", "x", "|", "x">>>>

\* The dados/chuvas.csv lines an input file is drawn from (after the skipped
\* header):
\*   2015-03-05,5.5,SP
\*   2015-03-25,12.3456789,SP
\*   2015-04-01,-3.0,SP
\*   2015-03-07,abc,SP
\*   2015-03-02,1.5,S-P
RainCandidates ==
  <<<<"2", "0", "1", "5", "-", "0", "3", "-", "0", "5", ",", "5",
      ".", "5", ",", "S", "P">>,
    <<"2", "0", "1", "5", "-", "0", "3", "-", "2", "5", ",", "1",
      "2", ".", "3", "4", "5", "6", "7", "8", "9", ",", "S", "P">>,
    <<"2", "0", "1", "5", "-", "0", "4", "-", "0", "1", ",", "-",
      "3", ".", "0", ",", "S", "P">>,
    <<"2", "0", "1", "5", "-", "0", "3", "-", "0", "7", ",", "a",
      "b", "c", ",", "S", "P">>,
    <<"2", "0", "1", "5", "-", "0", "3", "-", "0", "2", ",", "1",
      ".", "5", ",", "S", "-", "P">>>>

RECURSIVE PickLines(_, _, _)
PickLines(cands, S, i) ==
  IF i > Len(cands) THEN <<>>
  ELSE (IF i \in S THEN <<cands[i]>> ELSE <<>>) \o PickLines(cands, S, i + 1)

\* The files of at most MaxRecs lines, in the order of the candidates.
Files(cands) ==
  {PickLines(cands, S, 1) :
     S \in {T \in SUBSET (1..Len(cands)) : Cardinality(T) <= MaxRecs}}

Put(f, k, v) == [x \in DOMAIN f \cup {k} |-> IF x = k THEN v ELSE f[x]]

Orderings(S) ==
  {f \in [1..Cardinality(S) -> S] :
     \A i, j \in 1..Cardinality(S) : i # j => f[i] # f[j]}

(***************************************************************************)
(* The run of the pipeline.                                                *)
(***************************************************************************)

VARIABLES
  dengueLines,      \* lines of dados/casos_dengue.txt
  rainLines,        \* lines of dados/chuvas.csv
  status,           \* "running", "failed" (an exception aborted the run), "done"
  failedIn,         \* the transform that raised, "" while none has
  dengueSeen,       \* dengue lines the Map steps have been applied to
  dengueKeyed,      \* line index -> (uf, dict): output of "Create UF key"
  dengueGrouped,    \* "Group by state" has emitted its groups
  dengueGroups,     \* uf -> line indices of the group
  dengueGroupsDone, \* groups dengue_cases has run on
  dengueEmitted,    \* line index -> (key, cases) yielded by dengue_cases
  dengueAcc,        \* accumulators of "Sum cases by key"
  dengueAggDone,    \* "Sum cases by key" has emitted
  dengueAgg,        \* the dengue PCollection: (key, sum) pairs
  rainSeen,         \* rain lines the Map steps have been applied to
  rainKeyed,        \* line index -> (key, rainfall)
  rainAcc,          \* accumulators of "Sum rainfall by key"
  rainAggDone,      \* "Sum rainfall by key" has emitted
  rainAgg,          \* (key, sum) pairs emitted by "Sum rainfall by key"
  rainToRound,      \* pairs "Round rainfall" has not seen yet
  rain,             \* the rain PCollection: rounded (key, sum) pairs
  joinedDone,       \* "Merge pcollections" has emitted
  joined,           \* output of CoGroupByKey
  joinedPending,    \* buckets not yet filtered and formatted
  kept,             \* buckets that passed filter_missing_values
  output            \* rows written to dados/resultado

vars ==
  <<dengueLines, rainLines, status, failedIn, dengueSeen, dengueKeyed,
    dengueGrouped, dengueGroups, dengueGroupsDone, dengueEmitted, dengueAcc, dengueAggDone,
    dengueAgg, rainSeen, rainKeyed, rainAcc, rainAggDone, rainAgg, rainToRound,
    rain, joinedDone, joined, joinedPending, kept, output>>

dengueVars ==
  <<dengueSeen, dengueKeyed, dengueGrouped, dengueGroups, dengueGroupsDone,
    dengueEmitted, dengueAcc, dengueAggDone, dengueAgg>>

rainVars ==
  <<rainSeen, rainKeyed, rainAcc, rainAggDone, rainAgg, rainToRound, rain>>

joinVars == <<joinedDone, joined, joinedPending, kept, output>>

Init ==
  /\ dengueLines \in Files(DengueCandidates)
  /\ rainLines \in Files(RainCandidates)
  /\ status = "running"
  /\ failedIn = ""
  /\ dengueSeen = {}
  /\ dengueKeyed = <<>>
  /\ dengueGrouped = FALSE
  /\ dengueGroups = <<>>
  /\ dengueGroupsDone = {}
  /\ dengueEmitted = <<>>
  /\ dengueAcc = <<>>
  /\ dengueAggDone = FALSE
  /\ dengueAgg = {}
  /\ rainSeen = {}
  /\ rainKeyed = <<>>
  /\ rainAcc = <<>>
  /\ rainAggDone = FALSE
  /\ rainAgg = {}
  /\ rainToRound = {}
  /\ rain = {}
  /\ joinedDone = FALSE
  /\ joined = {}
  /\ joinedPending = {}
  /\ kept = {}
  /\ output = <<>>

\* "Text to list (dengue)" .. "Create UF key" on line i.
DengueMapStep(i) ==
  /\ status = "running"
  /\ i \in (1..Len(dengueLines)) \ dengueSeen
  /\ dengueSeen' = dengueSeen \cup {i}
  /\ LET r == DengueMap(dengueLines[i])
     IN  IF r.ok
         THEN /\ dengueKeyed' = Put(dengueKeyed, i, r.val)
              /\ UNCHANGED <<status, failedIn>>
         ELSE /\ status' = "failed"
              /\ failedIn' = "DengueMap"
              /\ UNCHANGED dengueKeyed
  /\ UNCHANGED <<dengueLines, rainLines, dengueGrouped, dengueGroups,
                 dengueGroupsDone, dengueEmitted, dengueAcc, dengueAggDone,
                 dengueAgg, rainVars, joinVars>>

\* GroupByKey emits once every upstream element has arrived.
DengueGroupReady == dengueSeen = 1..Len(dengueLines)

\* "Group by state".
DengueGroupByKey ==
  /\ status = "running"
  /\ ~dengueGrouped
  /\ DengueGroupReady
  /\ dengueGrouped' = TRUE
  /\ dengueGroups' =
       [u \in {dengueKeyed[i][1] : i \in DOMAIN dengueKeyed} |->
          {i \in DOMAIN dengueKeyed : dengueKeyed[i][1] = u}]
  /\ UNCHANGED <<dengueLines, rainLines, status, failedIn, dengueSeen, dengueKeyed,
                 dengueGroupsDone, dengueEmitted, dengueAcc, dengueAggDone,
                 dengueAgg, rainVars, joinVars>>

\* "Create UF-YEAR-MONTH key (dengue)" on the group of u, whose elements come
\* in any order; the pairs yielded go into the accumulators of the combiner.
DengueCasesStep(u) ==
  /\ status = "running"
  /\ dengueGrouped
  /\ u \in (DOMAIN dengueGroups) \ dengueGroupsDone
  /\ \E ord \in Orderings(dengueGroups[u]) :
       LET n    == Cardinality(dengueGroups[u])
           data == [j \in 1..n |-> dengueKeyed[ord[j]][2]]
           r    == dengue_cases(<<u, data>>)
       IN  /\ dengueEmitted' =
                [x \in DOMAIN dengueEmitted \cup {ord[j] : j \in 1..Len(r.val)} |->
                   IF x \in DOMAIN dengueEmitted THEN dengueEmitted[x]
                   ELSE r.val[CHOOSE j \in 1..Len(r.val) : ord[j] = x]]
           /\ dengueAcc' = CombineAll(dengueAcc, r.val)
           /\ IF r.ok
              THEN /\ dengueGroupsDone' = dengueGroupsDone \cup {u}
                   /\ UNCHANGED <<status, failedIn>>
              ELSE /\ status' = "failed"
                   /\ failedIn' = "dengue_cases"
                   /\ UNCHANGED dengueGroupsDone
  /\ UNCHANGED <<dengueLines, rainLines, dengueSeen, dengueKeyed, dengueGrouped,
                 dengueGroups, dengueAggDone, dengueAgg, rainVars, joinVars>>

\* CombinePerKey emits once every upstream element has been accumulated.
DengueCombineReady == dengueGrouped /\ dengueGroupsDone = DOMAIN dengueGroups

\* "Sum cases by key".
DengueCombineEmit ==
  /\ status = "running"
  /\ ~dengueAggDone
  /\ DengueCombineReady
  /\ dengueAggDone' = TRUE
  /\ dengueAgg' = CombineOutput(dengueAcc)
  /\ UNCHANGED <<dengueLines, rainLines, status, failedIn, dengueSeen, dengueKeyed,
                 dengueGrouped, dengueGroups, dengueGroupsDone, dengueEmitted,
                 dengueAcc, rainVars, joinVars>>

\* "Text to list (rain)" and "Create UF-YEAR-MONTH key (rain)" on line i; the
\* pair goes into the accumulators of the combiner.
RainMapStep(i) ==
  /\ status = "running"
  /\ i \in (1..Len(rainLines)) \ rainSeen
  /\ rainSeen' = rainSeen \cup {i}
  /\ LET r == rain_key_uf_year_month(text_to_list(rainLines[i], ","))
     IN  IF r.ok
         THEN /\ rainKeyed' = Put(rainKeyed, i, r.val)
              /\ rainAcc' = CombineAdd(rainAcc, r.val)
              /\ UNCHANGED <<status, failedIn>>
         ELSE /\ status' = "failed"
              /\ failedIn' = "rain_key_uf_year_month"
              /\ UNCHANGED <<rainKeyed, rainAcc>>
  /\ UNCHANGED <<dengueLines, rainLines, rainAggDone, rainAgg, rainToRound, rain,
                 dengueVars, joinVars>>

\* Mutant of RainCombineReady: the combiner emits after the first element.
RainCombineReady_early == rainSeen # {} \/ Len(rainLines) = 0

\* CombinePerKey emits once every upstream element has been accumulated.
RainCombineReady == rainSeen = 1..Len(rainLines)

\* "Sum rainfall by key".
RainCombineEmit ==
  /\ status = "running"
  /\ ~rainAggDone
  /\ RainCombineReady
  /\ rainAggDone' = TRUE
  /\ rainAgg' = CombineOutput(rainAcc)
  /\ rainToRound' = CombineOutput(rainAcc)
  /\ UNCHANGED <<dengueLines, rainLines, status, failedIn, rainSeen, rainKeyed, rainAcc,
                 rain, dengueVars, joinVars>>

\* "Round rainfall " on one aggregated pair.
RainRoundStep(p) ==
  /\ status = "running"
  /\ p \in rainToRound
  /\ rainToRound' = rainToRound \ {p}
  /\ rain' = rain \cup {round_rainfall(p)}
  /\ UNCHANGED <<dengueLines, rainLines, status, failedIn, rainSeen, rainKeyed, rainAcc,
                 rainAggDone, rainAgg, dengueVars, joinVars>>

\* CoGroupByKey emits once both input PCollections are complete.
JoinReady == dengueAggDone /\ rainAggDone /\ rainToRound = {}

\* "Merge pcollections".
MergeStep ==
  /\ status = "running"
  /\ ~joinedDone
  /\ JoinReady
  /\ joinedDone' = TRUE
  /\ joined' = CoGroupByKey(rain, dengueAgg)
  /\ joinedPending' = CoGroupByKey(rain, dengueAgg)
  /\ UNCHANGED <<dengueLines, rainLines, status, failedIn, dengueVars, rainVars, kept, output>>

\* "Filter missing values", "Unpack elements", "Prepare csv" and the write of
\* the row, on one joined bucket.
FormatStep(b) ==
  /\ status = "running"
  /\ b \in joinedPending
  /\ joinedPending' = joinedPending \ {b}
  /\ IF ~filter_missing_values(b)
     THEN UNCHANGED <<status, failedIn, kept, output>>
     ELSE /\ kept' = kept \cup {b}
          /\ LET r == unpack_elements(b)
             IN  IF r.ok
                 THEN /\ output' = Append(output, prepare_csv(r.val, ";"))
                      /\ UNCHANGED <<status, failedIn>>
                 ELSE /\ status' = "failed"
                      /\ failedIn' = "unpack_elements"
                      /\ UNCHANGED output
  /\ UNCHANGED <<dengueLines, rainLines, dengueVars, rainVars, joinedDone, joined>>

\* pipeline.run() returns: every stage has consumed its whole input.
Finish ==
  /\ status = "running"
  /\ joinedDone
  /\ joinedPending = {}
  /\ status' = "done"
  /\ UNCHANGED <<failedIn, dengueLines, rainLines, dengueVars, rainVars, joinVars>>

Next ==
  \/ \E i \in 1..MaxRecs + 1 : DengueMapStep(i)
  \/ DengueGroupByKey
  \/ \E u \in DOMAIN dengueGroups : DengueCasesStep(u)
  \/ DengueCombineEmit
  \/ \E i \in 1..MaxRecs + 1 : RainMapStep(i)
  \/ RainCombineEmit
  \/ \E p \in rainToRound : RainRoundStep(p)
  \/ MergeStep
  \/ \E b \in joinedPending : FormatStep(b)
  \/ Finish

Spec == Init /\ [][Next]_vars

(***************************************************************************)
(* What the input files hold, read off the lines themselves.               *)
(***************************************************************************)

DengueIdx == 1..Len(dengueLines)
RainIdx == 1..Len(rainLines)

\* Total of the measures of the records of f (index -> (key, measure)) that
\* carry key k, taken in file order.
RECURSIVE TotalFrom(_, _, _)
TotalFrom(f, k, i) ==
  IF i = 0 THEN 0
  ELSE TotalFrom(f, k, i - 1) + (IF i \in DOMAIN f /\ f[i][1] = k THEN f[i][2] ELSE 0)

DengueTotal(k) == TotalFrom(dengueEmitted, k, Len(dengueLines))
RainTotal(k) == TotalFrom(rainKeyed, k, Len(rainLines))

DengueKeys == {dengueEmitted[i][1] : i \in DOMAIN dengueEmitted}
RainKeys == {rainKeyed[i][1] : i \in DOMAIN rainKeyed}

PairsWithKey(stream, k) == {p \in stream : p[1] = k}

(***************************************************************************)
(* C5: each CombinePerKey(sum) emits exactly one (key, sum) pair for every  *)
(* key among the pairs it was given and none for any other key, and the     *)
(* sum is the total of the measures of that key, whatever the order in     *)
(* which the records were accumulated.                                     *)
(***************************************************************************)
InvC5_AggregationSums ==
  /\ dengueAggDone =>
       /\ Keys(dengueAgg) = DengueKeys
       /\ \A k \in DengueKeys :
            PairsWithKey(dengueAgg, k) = {<<k, DengueTotal(k)>>}
  /\ rainAggDone =>
       /\ Keys(rainAgg) = RainKeys
       /\ \A k \in RainKeys :
            PairsWithKey(rainAgg, k) = {<<k, RainTotal(k)>>}

\* Both combiners have emitted, each for a key that two records share.
WitC5_TwoRecordsPerKey ==
  /\ dengueAggDone /\ rainAggDone
  /\ \E i, j \in DOMAIN dengueEmitted :
       i # j /\ dengueEmitted[i][1] = dengueEmitted[j][1]
             /\ dengueEmitted[i][2] # dengueEmitted[j][2]
  /\ \E i, j \in DOMAIN rainKeyed :
       i # j /\ rainKeyed[i][1] = rainKeyed[j][1] /\ rainKeyed[i][2] # rainKeyed[j][2]

(***************************************************************************)
(* C6: CoGroupByKey is a full outer grouping: one bucket for every key of  *)
(* the union of the two aggregated streams, each bucket mapping 'rain' and *)
(* 'dengue' to the values of that key in the stream, the empty sequence    *)
(* when the stream has none.                                               *)
(***************************************************************************)
InvC6_FullOuterGrouping ==
  joinedDone =>
    /\ Keys(joined) = Keys(rain) \cup Keys(dengueAgg)
    /\ \A k \in Keys(joined) : Cardinality(PairsWithKey(joined, k)) = 1
    /\ \A b \in joined :
         /\ DOMAIN b[2] = {"rain", "dengue"}
         /\ Len(b[2].rain) = Cardinality(PairsWithKey(rain, b[1]))
         /\ Len(b[2].dengue) = Cardinality(PairsWithKey(dengueAgg, b[1]))
         /\ \A j \in 1..Len(b[2].rain) : <<b[1], b[2].rain[j]>> \in rain
         /\ \A j \in 1..Len(b[2].dengue) : <<b[1], b[2].dengue[j]>> \in dengueAgg

\* The join has emitted a rain-only, a dengue-only and a two-sided bucket.
WitC6_OneSidedBuckets ==
  /\ joinedDone
  /\ \E b \in joined : b[2].rain = <<>> /\ b[2].dengue # <<>>
  /\ \E b \in joined : b[2].dengue = <<>> /\ b[2].rain # <<>>
  /\ \E b \in joined : b[2].dengue # <<>> /\ b[2].rain # <<>>

(***************************************************************************)
(* C1: in a run that completes, the output holds exactly one row for a key *)
(* that both aggregations emitted, and no row for any other key.           *)
(***************************************************************************)
\* The rows of the output that start with the region, year and month of k.
RowsOfKey(k) ==
  {j \in 1..Len(output) : Take(Split(output[j], ";"), 3) = Split(k, "-")}

InvC1_InnerJoin ==
  status = "done" =>
    /\ \A k \in Keys(rainAgg) \cap Keys(dengueAgg) : Cardinality(RowsOfKey(k)) = 1
    /\ \A k \in (Keys(rainAgg) \cup Keys(dengueAgg)) \ (Keys(rainAgg) \cap Keys(dengueAgg)) :
         RowsOfKey(k) = {}
    /\ Len(output) = Cardinality(Keys(rainAgg) \cap Keys(dengueAgg))

\* A completed run with a two-sided key, a rain-only key and a dengue-only key.
WitC1_BothAndOneSided ==
  /\ status = "done"
  /\ Keys(rainAgg) \cap Keys(dengueAgg) # {}
  /\ Keys(rainAgg) \ Keys(dengueAgg) # {}
  /\ Keys(dengueAgg) \ Keys(rainAgg) # {}
  /\ Len(output) > 0

(***************************************************************************)
(* C9: a bucket that passes filter_missing_values holds exactly one rain   *)
(* value and one dengue value, the rain value is the total of all rain     *)
(* measures of the key (rounded to 6 digits after summation) and the       *)
(* dengue value the total of all dengue measures of the key, and the row   *)
(* written for the bucket carries these two values.                        *)
(***************************************************************************)
RoundedRainTotal(k) == RoundHalfEven(RainTotal(k), Pow10(FracDigits - NDigits))

InvC9_OneCompleteValuePerSource ==
  /\ \A b \in kept :
       /\ Len(b[2].rain) = 1 /\ Len(b[2].dengue) = 1
       /\ b[2].rain[1] = RoundedRainTotal(b[1])
       /\ b[2].dengue[1] = DengueTotal(b[1])
  /\ \A j \in 1..Len(output) :
       \E b \in kept :
         /\ Take(Split(output[j], ";"), 3) = Split(b[1], "-")
         /\ SubSeq(Split(output[j], ";"), 4, 5) =
              <<FloatStr(RoundedRainTotal(b[1])), FloatStr(DengueTotal(b[1]))>>

\* A row has been written for a key with two rain records, whose total is
\* not a multiple of 10^-6, and two dengue records.
WitC9_RowOfSeveralRecords ==
  /\ Len(output) > 0
  /\ \E b \in kept :
       /\ Cardinality({i \in DOMAIN rainKeyed : rainKeyed[i][1] = b[1]}) > 1
       /\ Cardinality({i \in DOMAIN dengueEmitted : dengueEmitted[i][1] = b[1]}) > 1
       /\ RoundedRainTotal(b[1]) # RainTotal(b[1])

(***************************************************************************)
(* C10: the grouping, aggregation and join stages are barriers: nothing is *)
(* emitted by one of them before every upstream record has been processed, *)
(* and the rows of a completed run are a function of the two input files   *)
(* alone, the same for every interleaving of the two branches.             *)
(***************************************************************************)
\* The (key, measure) pair of each line, computed from the files alone.
InputDenguePairs ==
  [i \in DengueIdx |->
     dengue_case(DengueMap(dengueLines[i]).val[1], DengueMap(dengueLines[i]).val[2]).val]

InputRainPairs ==
  [i \in RainIdx |-> rain_key_uf_year_month(text_to_list(rainLines[i], ",")).val]

ExpectedRows ==
  {prepare_csv(Split(k, "-") \o
     <<FloatStr(RoundHalfEven(TotalFrom(InputRainPairs, k, Len(rainLines)),
                              Pow10(FracDigits - NDigits))),
       FloatStr(TotalFrom(InputDenguePairs, k, Len(dengueLines)))>>, ";") :
     k \in {InputRainPairs[i][1] : i \in RainIdx}
             \cap {InputDenguePairs[i][1] : i \in DengueIdx}}

InvC10_Barriers ==
  /\ (dengueGrouped \/ dengueGroups # <<>>) => DOMAIN dengueKeyed = DengueIdx
  /\ (dengueAggDone \/ dengueAgg # {}) => DOMAIN dengueEmitted = DengueIdx
  /\ (rainAggDone \/ rainAgg # {}) => DOMAIN rainKeyed = RainIdx
  /\ (joinedDone \/ joined # {}) =>
       /\ dengueAggDone /\ rainAggDone
       /\ Keys(rain) = Keys(rainAgg)
       /\ Keys(joined) = RainKeys \cup DengueKeys
  /\ status = "done" =>
       /\ {output[j] : j \in 1..Len(output)} = ExpectedRows
       /\ Len(output) = Cardinality(ExpectedRows)

\* A completed run that wrote two rows, from two records on each side.
WitC10_CompletedTwoRows ==
  /\ status = "done"
  /\ Len(output) = 2
  /\ Len(dengueLines) = 2 /\ Len(rainLines) = 2

(***************************************************************************)
(* The raw fields of the records, read off the lines.                      *)
(***************************************************************************)
DengueFields(i) == Split(dengueLines[i], "|")
RainFields(i) == Split(rainLines[i], ",")

NumericChars == Digits \cup {".", "-", "+"}

\* A field that holds a character outside the numeric ones; on the alphabet
\* of the inputs no such field is a float literal.
NonNumeric(s) == \E j \in 1..Len(s) : s[j] \notin NumericChars

NoDash(s) == \A j \in 1..Len(s) : s[j] # "-"

\* A date of the form YYYY-MM or YYYY-MM-...
IsYMDate(d) ==
  /\ Len(d) >= 7
  /\ \A j \in {1, 2, 3, 4, 6, 7} : d[j] \in Digits
  /\ d[5] = "-"
  /\ Len(d) > 7 => d[8] = "-"

(***************************************************************************)
(* C4: a rain record whose rainfall field is not a number aborts the run:  *)
(* once the record has been read the run has failed in                     *)
(* rain_key_uf_year_month, no (key, measure) pair was made of it, and no   *)
(* run over a file that holds such a record completes.                     *)
(***************************************************************************)
RainUnparsable(i) == Len(RainFields(i)) = 3 /\ NonNumeric(RainFields(i)[2])

InvC4_StrictRainAborts ==
  \A i \in RainIdx :
    RainUnparsable(i) =>
      /\ status # "done"
      /\ i \notin DOMAIN rainKeyed
      /\ i \in rainSeen => status = "failed" /\ failedIn = "rain_key_uf_year_month"

\* The run failed on an unparsable rain record that was not the first rain
\* record processed, after the dengue branch had already aggregated.
WitC4_FailedAfterOtherRecords ==
  /\ status = "failed"
  /\ failedIn = "rain_key_uf_year_month"
  /\ \E i \in rainSeen : RainUnparsable(i)
  /\ DOMAIN rainKeyed # {}
  /\ dengueAggDone /\ dengueAgg # {}

(***************************************************************************)
(* C7: for a record whose region holds no '-' and whose date has the form  *)
(* YYYY-MM-..., unpack_elements splits the derived key into exactly the    *)
(* record's region, year and month, and both sources derive the same key   *)
(* for the same region, year and month.                                    *)
(***************************************************************************)
KeyRoundTrips(key, region, date) ==
  LET u == unpack_elements(<<key, [rain |-> <<0>>, dengue |-> <<0>>]>>)
  IN  /\ u.ok
      /\ Take(u.val, 3) = <<region, SubSeq(date, 1, 4), SubSeq(date, 6, 7)>>

\* Region and date of a keyed dengue record and of a keyed rain record.
DengueRegion(i) == dengueKeyed[i][2]["uf"]
DengueDate(i) == dengueKeyed[i][2]["data_iniSE"]
RainRegion(i) == RainFields(i)[3]
RainDate(i) == RainFields(i)[1]

DengueValid(i) == NoDash(DengueRegion(i)) /\ IsYMDate(DengueDate(i))
RainValid(i) == NoDash(RainRegion(i)) /\ IsYMDate(RainDate(i))

InvC7_KeyRoundTrip ==
  /\ \A i \in DOMAIN dengueEmitted :
       DengueValid(i) =>
         KeyRoundTrips(dengueEmitted[i][1], DengueRegion(i), DengueDate(i))
  /\ \A i \in DOMAIN rainKeyed :
       RainValid(i) => KeyRoundTrips(rainKeyed[i][1], RainRegion(i), RainDate(i))
  /\ \A i \in DOMAIN dengueEmitted : \A j \in DOMAIN rainKeyed :
       /\ DengueValid(i) /\ RainValid(j)
       /\ DengueRegion(i) = RainRegion(j)
       /\ SubSeq(DengueDate(i), 1, 7) = SubSeq(RainDate(j), 1, 7)
       => dengueEmitted[i][1] = rainKeyed[j][1]

\* A dengue record and a rain record of the same region and month, on
\* different days, have both been keyed, and a row was written for the key.
WitC7_SameKeyBothSources ==
  /\ \E i \in DOMAIN dengueEmitted : \E j \in DOMAIN rainKeyed :
       /\ DengueValid(i) /\ RainValid(j)
       /\ DengueRegion(i) = RainRegion(j)
       /\ SubSeq(DengueDate(i), 1, 7) = SubSeq(RainDate(j), 1, 7)
       /\ DengueDate(i) # RainDate(j)
       /\ RowsOfKey(rainKeyed[j][1]) # {}

(***************************************************************************)
(* C8, as stated: a dengue line whose field count is not 9 is tolerated:   *)
(* its dictionary holds the names that have a field, and the line passes   *)
(* transform_dates and uf_key without aborting the run.                    *)
(***************************************************************************)
Tolerated(i) ==
  /\ i \in DOMAIN dengueKeyed
  /\ LET d == dengueKeyed[i][2]
         f == DengueFields(i)
         n == Min(Len(dengue_columns), Len(f))
     IN  /\ DOMAIN d = {dengue_columns[j] : j \in 1..n} \cup {"ano_mes"}
         /\ \A j \in 1..n : d[dengue_columns[j]] = f[j]

CexC8_AnyFieldCountTolerated ==
  \A i \in dengueSeen :
    Len(DengueFields(i)) # Len(dengue_columns) => Tolerated(i)

(***************************************************************************)
(* C8, amended: a dengue line with 6 to 8 fields or more than 9 is         *)
(* tolerated (extra fields ignored, the names with no field unset); a line *)
(* with fewer than 6 fields has no 'uf' and aborts the run in the Map      *)
(* steps (KeyError in transform_dates or uf_key).                          *)
(***************************************************************************)
\* The position of 'uf' in dengue_columns.
UfPosition == CHOOSE j \in 1..Len(dengue_columns) : dengue_columns[j] = "uf"

InvC8_FieldCountMismatch ==
  \A i \in dengueSeen :
    LET n == Len(DengueFields(i))
    IN  n # Len(dengue_columns) =>
          IF n >= UfPosition
          THEN Tolerated(i)
          ELSE /\ i \notin DOMAIN dengueKeyed
               /\ status = "failed" /\ failedIn = "DengueMap"

\* A line with 10 fields was tolerated and a line with 3 fields aborted the run.
WitC8_LongToleratedShortAborts ==
  /\ \E i \in DOMAIN dengueKeyed : Len(DengueFields(i)) > Len(dengue_columns)
  /\ \E i \in dengueSeen : Len(DengueFields(i)) < UfPosition /\ status = "failed"

(***************************************************************************)
(* C2, as stated: a dengue record whose 'casos' holds a digit but is not a *)
(* number yields the pair (key, 0.0) and dengue_cases does not abort the   *)
(* run.                                                                    *)
(***************************************************************************)
DigitButNotNumber(s) == HasDigit(s) /\ NonNumeric(s)

CexC2_DigitStringDegradesToZero ==
  \A i \in DOMAIN dengueKeyed :
    DigitButNotNumber(DengueFields(i)[3]) =>
      /\ failedIn # "dengue_cases"
      /\ dengueKeyed[i][1] \in dengueGroupsDone =>
           /\ i \in DOMAIN dengueEmitted
           /\ dengueEmitted[i][2] = 0

(***************************************************************************)
(* C3, as stated: every measure that enters a per-key sum is >= 0, a       *)
(* record with a negative raw measure still yields a pair for its key, and *)
(* every aggregated sum is >= 0.                                           *)
(***************************************************************************)
CexC3_MeasuresNonNegative ==
  /\ \A i \in DOMAIN dengueEmitted : dengueEmitted[i][2] >= 0
  /\ \A i \in DOMAIN rainKeyed : rainKeyed[i][2] >= 0
  /\ \A k \in DOMAIN dengueAcc : dengueAcc[k] >= 0
  /\ \A k \in DOMAIN rainAcc : rainAcc[k] >= 0
  /\ \A p \in dengueAgg \cup rainAgg \cup rain : p[2] >= 0

====
